---- MODULE Spec2Model ----
(***************************************************************************)
(* HttpOAuth1Middleware (scrapy/contrib/downloadermiddleware/httpoauth.py) *)
(* as a state machine: the live/dead token deques, the list of requests on *)
(* hold, the requests known to the engine with their meta and headers, and *)
(* the wall clock read through time().                                     *)
(*                                                                         *)
(* Every handler of the middleware is one atomic action, except for the   *)
(* sleep() of spider_idle: the handler stops there (state "sleeping") and *)
(* IdleWake is the rest of the handler once the sleep has returned.       *)
(***************************************************************************)
EXTENDS Integers, Sequences, FiniteSets, TLC

\* ---------------------------------------------------------------- bounds
MaxTokens == 2
MaxRequests == 2
MaxClock == 60

\* ------------------------------------------------------------- constants
\* Python's None.
None == "None"
\* float('inf') and float('-inf'): far outside every clock value of the model,
\* so the integer arithmetic below orders them as the floats are ordered.
PosInf == 1000000
NegInf == -1000000
\* the literal 60 of REQUEST_WINDOW_SIZE_MINS * 60
SecondsPerMinute == 60

TokenName == <<"A", "B", "C">>
RequestName == <<"r1", "r2", "r3", "r4">>
Tokens == {TokenName[i] : i \in 1..MaxTokens}
Requests == {RequestName[i] : i \in 1..MaxRequests}

\* Seconds by which the clock may advance between two handler calls.
TickSteps == {60}

\* An optional spider attribute: <<>> when the spider does not define it,
\* <<v>> when it does.
GetAttr(attr, default) == IF attr = <<>> THEN default ELSE attr[1]

\* The inputs of spider_opened.
TokenLists == {SubSeq(TokenName, 1, n) : n \in 0..MaxTokens}
Windows == {1}
CustomClassifiers == {"always_live", "by_response"}
\* A response is identified by what a spider-supplied classifier makes of it.
Responses == BOOLEAN \X BOOLEAN

\* ------------------------------------------------------------ dict helpers
EmptyDict == [k \in {} |-> None]
DictSet(d, k, v) == [x \in (DOMAIN d) \cup {k} |-> IF x = k THEN v ELSE d[x]]
DictDel(d, ks) == [x \in (DOMAIN d) \ ks |-> d[x]]
DictGet(d, k, default) == IF k \in DOMAIN d THEN d[k] ELSE default

\* The meta a spider may put on a request it yields.
SpiderMetas == {EmptyDict, DictSet(EmptyDict, "token_requests_succeed", 0)}

VARIABLES
    state,                            \* "constructed", "opened", "not_configured",
                                      \* "sleeping" (inside the sleep of spider_idle),
                                      \* "blocked" (inside a sleep that never returns)
    oauth_token_list,                 \* spider attribute
    oauth_check_response_func,        \* spider attribute
    oauth_request_windows_size_mins,  \* spider attribute
    check_response,                   \* self.check_response
    REQUEST_WINDOW_SIZE_MINS,         \* self.REQUEST_WINDOW_SIZE_MINS
    tokens_live,                      \* deque of <<token, requests_succeed>>
    tokens_dead,                      \* deque of <<token, time_died>>
    requests_on_hold,                 \* list of requests
    requests,                         \* request -> [status, meta, headers]
    clock,                            \* time()
    outcome                           \* what the last handler call did and returned

vars == <<state, oauth_token_list, oauth_check_response_func,
          oauth_request_windows_size_mins, check_response,
          REQUEST_WINDOW_SIZE_MINS, tokens_live, tokens_dead,
          requests_on_hold, requests, clock, outcome>>

spider == <<oauth_token_list, oauth_check_response_func,
            oauth_request_windows_size_mins>>

Outcome(op, result, request, token, slept, crawled) ==
    [op |-> op, result |-> result, request |-> request, token |-> token,
     slept |-> slept, crawled |-> crawled]

\* ------------------------------------------------------------- classifiers
\* Faulty variant: the default classifier keeps the token alive.
DefaultCheckResponse_Live(response) == <<FALSE, FALSE>>

DefaultCheckResponse(response) == <<TRUE, FALSE>>

\* self.check_response(response): <<token_dead, retry_request>>
CheckResponse(f, response) ==
    CASE f = "always_live" -> <<FALSE, FALSE>>
      [] f = "by_response" -> response
      [] OTHER -> DefaultCheckResponse(response)

\* ------------------------------------------------------------- token pool
\* Faulty variant: the window is left out of the remaining time.
DeadTokenTimeLeft_NoWindow(dead, now, mins) ==
    IF Len(dead) > 0
    THEN LET time_expired == dead[1][2]
             time_left == 0 - (now - time_expired)
         IN  IF time_left > 0 THEN time_left ELSE 0
    ELSE PosInf

DeadTokenTimeLeft(dead, now, mins) ==
    IF Len(dead) > 0
    THEN LET time_expired == dead[1][2]
             time_left == mins * SecondsPerMinute - (now - time_expired)
         IN  IF time_left > 0 THEN time_left ELSE 0
    ELSE PosInf

\* Faulty variant: the front entry is read but left in the deque.
PopLeft_Peek(q) == q

\* deque.popleft(): what is left of the deque
PopLeft(q) == Tail(q)

\* _obtain_token: the returned pair, the exception raised instead of a return,
\* and the deques as the call leaves them.
ObtainToken(live, dead, now, mins) ==
    IF Len(live) = 0 /\ DeadTokenTimeLeft(dead, now, mins) > 0
    THEN [raised |-> None, token |-> None, live |-> live, dead |-> dead]
    ELSE IF Len(live) > 0
         THEN \* the entry is popped into (token, requests_succeed); the return
              \* statement then reads requests_done, which this branch never binds
              [raised |-> "UnboundLocalError", token |-> None,
               live |-> PopLeft(live), dead |-> dead]
         ELSE [raised |-> None, token |-> Head(dead)[1],
               live |-> live, dead |-> PopLeft(dead)]

\* auth.sign(request.url): the Authorization header value made with the token
Sign(token) == <<"OAuth", token>>

\* ------------------------------------------------------------------- Init
Init ==
    /\ state = "constructed"
    /\ oauth_token_list \in {<<>>} \cup {<<l>> : l \in TokenLists}
    /\ oauth_check_response_func \in {<<>>} \cup {<<c>> : c \in CustomClassifiers}
    /\ oauth_request_windows_size_mins \in {<<>>} \cup {<<w>> : w \in Windows}
    /\ check_response = None
    /\ REQUEST_WINDOW_SIZE_MINS = 0
    /\ tokens_live = <<>>
    /\ tokens_dead = <<>>
    /\ requests_on_hold = <<>>
    /\ requests = [r \in Requests |->
                     [status |-> "unsent", meta |-> EmptyDict, headers |-> EmptyDict]]
    /\ clock = 0
    /\ outcome = Outcome("init", None, None, None, 0, <<>>)

\* ---------------------------------------------------------- spider_opened
\* Faulty variant: the initial tokens count as having died at time 0.
InitialDead_DiedNow(tokens) == [i \in 1..Len(tokens) |-> <<tokens[i], 0>>]

\* deque(zip(tokens, [float('-inf')] * len(tokens)))
InitialDead(tokens) == [i \in 1..Len(tokens) |-> <<tokens[i], NegInf>>]

SpiderOpened ==
    /\ state = "constructed"
    /\ check_response' = GetAttr(oauth_check_response_func, "default_check_response")
    /\ REQUEST_WINDOW_SIZE_MINS' = GetAttr(oauth_request_windows_size_mins, 0)
    /\ IF oauth_token_list = <<>>
       THEN /\ state' = "not_configured"
            /\ outcome' = Outcome("spider_opened", "NotConfigured", None, None, 0, <<>>)
            /\ UNCHANGED <<tokens_live, tokens_dead, requests_on_hold>>
       ELSE LET tokens == oauth_token_list[1]
            IN  /\ tokens_live' = <<>>
                /\ tokens_dead' = InitialDead(tokens)
                /\ requests_on_hold' = <<>>
                /\ state' = "opened"
                /\ outcome' = Outcome("spider_opened", None, None, None, 0, <<>>)
    /\ UNCHANGED <<spider, requests, clock>>

\* Faulty variant: handlers are also run while spider_idle sleeps.
Dispatchable_Concurrent == state \in {"opened", "sleeping"}

\* The host calls the handlers from one coordination context: a handler is
\* called only when no other handler is running.
Dispatchable == state = "opened"

\* The spider yields its next request (r1, r2, ... in this order); the engine
\* schedules it.
NewRequest(r, m) ==
    /\ Dispatchable
    /\ requests[r].status = "unsent"
    /\ \A i, j \in 1..MaxRequests :
          (i < j /\ RequestName[j] = r) => requests[RequestName[i]].status # "unsent"
    /\ requests' = [requests EXCEPT ![r] =
                      [status |-> "scheduled", meta |-> m, headers |-> EmptyDict]]
    /\ UNCHANGED <<state, spider, check_response, REQUEST_WINDOW_SIZE_MINS,
                   tokens_live, tokens_dead, requests_on_hold, clock, outcome>>

\* -------------------------------------------------------- process_request
\* Faulty variant: the request is not put on hold.
HoldRequest_Forgets(hold, r) == hold

\* self.requests_on_hold.append(request)
HoldRequest(hold, r) == Append(hold, r)

ProcessRequest(r) ==
    /\ Dispatchable
    /\ requests[r].status = "scheduled"
    /\ LET o == ObtainToken(tokens_live, tokens_dead, clock, REQUEST_WINDOW_SIZE_MINS)
       IN  /\ tokens_live' = o.live
           /\ tokens_dead' = o.dead
           /\ IF o.raised # None
              THEN /\ requests' = [requests EXCEPT ![r].status = "failed"]
                   /\ UNCHANGED requests_on_hold
                   /\ outcome' = Outcome("process_request", o.raised, r, None, 0, <<>>)
              ELSE IF o.token = None
              THEN /\ requests_on_hold' = HoldRequest(requests_on_hold, r)
                   /\ requests' = [requests EXCEPT ![r].status = "ignored"]
                   /\ outcome' = Outcome("process_request", "IgnoreRequest", r, None, 0, <<>>)
              ELSE /\ requests' = [requests EXCEPT ![r] =
                         [status |-> "downloading",
                          meta |-> DictSet(DictSet(@.meta, "oauth", TRUE), "token", o.token),
                          headers |-> DictSet(@.headers, "Authorization", <<Sign(o.token)>>)]]
                   /\ UNCHANGED requests_on_hold
                   /\ outcome' = Outcome("process_request", None, r, o.token, 0, <<>>)
    /\ UNCHANGED <<state, spider, check_response, REQUEST_WINDOW_SIZE_MINS, clock>>

\* ------------------------------------------------------- process_response
\* "Always recycle the token and put it somewhere": the deques after the
\* if token_dead / else of process_response.
\* Faulty variant: the else is missing, so the live append happens for a dead token too.
ReturnToken_NoElse(live, dead, token, token_dead, requests_succeed, now) ==
    [live |-> Append(live, <<token, requests_succeed + 1>>),
     dead |-> IF token_dead THEN Append(dead, <<token, now>>) ELSE dead]

\* Faulty variant: a dead token is put at the front of the dead deque.
ReturnToken_AppendLeft(live, dead, token, token_dead, requests_succeed, now) ==
    IF token_dead
    THEN [live |-> live, dead |-> <<(<<token, now>>)>> \o dead]
    ELSE [live |-> Append(live, <<token, requests_succeed + 1>>), dead |-> dead]

ReturnToken(live, dead, token, token_dead, requests_succeed, now) ==
    IF token_dead
    THEN [live |-> live, dead |-> Append(dead, <<token, now>>)]
    ELSE [live |-> Append(live, <<token, requests_succeed + 1>>), dead |-> dead]

ProcessResponse(r, response) ==
    /\ Dispatchable
    /\ requests[r].status = "downloading"
    /\ LET meta == requests[r].meta
           oauth_used == DictGet(meta, "oauth", FALSE)
           cr == CheckResponse(check_response, response)
           token_dead == cr[1]
           retry_request == cr[2]
           token == meta["token"]
           pool == ReturnToken(tokens_live, tokens_dead, token, token_dead,
                               DictGet(meta, "token_requests_succeed", 0), clock)
       IN  IF ~oauth_used
           THEN \* the method falls off its end and returns None
                /\ requests' = [requests EXCEPT ![r].status = "finished"]
                /\ outcome' = Outcome("process_response", None, r, None, 0, <<>>)
                /\ UNCHANGED <<tokens_live, tokens_dead>>
           ELSE IF ~token_dead /\ "token_requests_succeed" \notin DOMAIN meta
           THEN \* request.meta['token_requests_succeed'] raises KeyError:
                \* process_request never sets that key
                /\ requests' = [requests EXCEPT ![r].status = "failed"]
                /\ outcome' = Outcome("process_response", "KeyError", r, token, 0, <<>>)
                /\ UNCHANGED <<tokens_live, tokens_dead>>
           ELSE /\ tokens_live' = pool.live
                /\ tokens_dead' = pool.dead
                /\ IF retry_request
                   THEN /\ requests' = [requests EXCEPT ![r] =
                              [@ EXCEPT !.status = "scheduled",
                                        !.meta = DictDel(@, {"token", "oauth"})]]
                        /\ outcome' = Outcome("process_response", "request", r, token, 0, <<>>)
                   ELSE /\ requests' = [requests EXCEPT ![r].status = "finished"]
                        /\ outcome' = Outcome("process_response", "response", r, token, 0, <<>>)
    /\ UNCHANGED <<state, spider, check_response, REQUEST_WINDOW_SIZE_MINS,
                   requests_on_hold, clock>>

\* ------------------------------------------------------------ spider_idle
\* Faulty variant: the test for held requests is missing.
IdleHasWork_Always(hold) == TRUE

\* if len(self.requests_on_hold) != 0
IdleHasWork(hold) == Len(hold) # 0

\* for r in self.requests_on_hold: spider.crawler.engine.crawl(r, spider)
Reschedule(hold) ==
    [r \in Requests |->
        IF \E i \in 1..Len(hold) : hold[i] = r
        THEN [requests[r] EXCEPT !.status = "scheduled"]
        ELSE requests[r]]

SpiderIdle ==
    /\ Dispatchable
    /\ IF IdleHasWork(requests_on_hold)
       THEN LET time_left == DeadTokenTimeLeft(tokens_dead, clock, REQUEST_WINDOW_SIZE_MINS)
                sleeps == Len(tokens_live) = 0 /\ time_left > 0
            IN  IF sleeps /\ time_left = PosInf
                THEN \* sleep(float('inf')) does not return: depending on the
                     \* interpreter it raises or blocks the thread for ever
                     \/ /\ outcome' = Outcome("spider_idle", "SleepError", None, None, 0, <<>>)
                        /\ UNCHANGED <<state, requests, requests_on_hold, clock>>
                     \/ /\ state' = "blocked"
                        /\ outcome' = Outcome("spider_idle", "blocked", None, None, 0, <<>>)
                        /\ UNCHANGED <<requests, requests_on_hold, clock>>
                ELSE IF sleeps
                THEN \* sleep(time_left) begins
                     /\ clock + time_left <= MaxClock
                     /\ state' = "sleeping"
                     /\ outcome' = Outcome("spider_idle", "sleeping", None, None,
                                           time_left, <<>>)
                     /\ UNCHANGED <<requests, requests_on_hold, clock>>
                ELSE /\ requests' = Reschedule(requests_on_hold)
                     /\ requests_on_hold' = <<>>
                     /\ outcome' = Outcome("spider_idle", "DontCloseSpider", None, None,
                                           0, requests_on_hold)
                     /\ UNCHANGED <<state, clock>>
       ELSE /\ outcome' = Outcome("spider_idle", None, None, None, 0, <<>>)
            /\ UNCHANGED <<state, requests, requests_on_hold, clock>>
    /\ UNCHANGED <<spider, check_response, REQUEST_WINDOW_SIZE_MINS,
                   tokens_live, tokens_dead>>

\* spider_idle after its sleep has returned: the held requests are rescheduled,
\* the list is cleared and DontCloseSpider is raised.
IdleWake ==
    /\ state = "sleeping"
    /\ state' = "opened"
    /\ clock' = clock + outcome.slept
    /\ requests' = Reschedule(requests_on_hold)
    /\ requests_on_hold' = <<>>
    /\ outcome' = Outcome("spider_idle", "DontCloseSpider", None, None,
                          outcome.slept, requests_on_hold)
    /\ UNCHANGED <<spider, check_response, REQUEST_WINDOW_SIZE_MINS,
                   tokens_live, tokens_dead>>

\* ------------------------------------------------------------------ time()
Tick(d) ==
    /\ state = "opened"
    /\ clock + d <= MaxClock
    /\ clock' = clock + d
    /\ UNCHANGED <<state, spider, check_response, REQUEST_WINDOW_SIZE_MINS,
                   tokens_live, tokens_dead, requests_on_hold, requests, outcome>>

Next ==
    \/ SpiderOpened
    \/ \E r \in Requests, m \in SpiderMetas : NewRequest(r, m)
    \/ \E r \in Requests : ProcessRequest(r)
    \/ \E r \in Requests, response \in Responses : ProcessResponse(r, response)
    \/ SpiderIdle
    \/ IdleWake
    \/ \E d \in TickSteps : Tick(d)

Spec == Init /\ [][Next]_vars

\* ================================================================ claims
\* Helpers of the formulas below.
SuppliedN == IF oauth_token_list = <<>> THEN 0 ELSE Len(oauth_token_list[1])
Window == REQUEST_WINDOW_SIZE_MINS * SecondsPerMinute
PoolTokens == [i \in 1..Len(tokens_live) |-> tokens_live[i][1]]
                 \o [i \in 1..Len(tokens_dead) |-> tokens_dead[i][1]]
InFlight == {r \in Requests : requests[r].status = "downloading"}
\* The step is a process_request call on r.
RunsProcessRequest(r) ==
    requests[r].status = "scheduled" /\ requests'[r].status # "scheduled"
\* The step is a process_response call on r.
RunsProcessResponse(r) ==
    requests[r].status = "downloading" /\ requests'[r].status # "downloading"
\* The step is a process_request call that signs r with token t.
Acquires(r, t) ==
    /\ RunsProcessRequest(r)
    /\ requests'[r].status = "downloading"
    /\ DictGet(requests'[r].meta, "token", None) = t
    /\ DictGet(requests'[r].meta, "oauth", FALSE) = TRUE
    /\ outcome'.token = t

C2_CooldownRespected ==
    [][ \A r \in Requests :
          /\ \A i \in 1..Len(tokens_dead) :
                Acquires(r, tokens_dead[i][1]) => clock >= tokens_dead[i][2] + Window
          /\ ( /\ RunsProcessRequest(r)
               /\ tokens_live = <<>>
               /\ tokens_dead # <<>>
               /\ clock >= Head(tokens_dead)[2] + Window )
             => ( /\ Acquires(r, Head(tokens_dead)[1])
                  /\ tokens_dead' = Tail(tokens_dead) )
      ]_vars

\* With a one-minute window, the only token was used by r1, retired, and is
\* handed to r2 at the clock value 60: its cooldown has just elapsed.
C2_Witness ==
    /\ REQUEST_WINDOW_SIZE_MINS = 1
    /\ SuppliedN = 1
    /\ requests["r1"].status = "finished"
    /\ DictGet(requests["r1"].meta, "token", None) = "A"
    /\ outcome.op = "process_request"
    /\ outcome.request = "r2"
    /\ outcome.token = "A"
    /\ clock = 60

\* ---------------------------------------------------------------------
\* C3: a process_request call that finds tokens_live non-empty signs the
\* request with the front live token and pops that entry.
C3_LivePreferred ==
    [][ \A r \in Requests :
          (RunsProcessRequest(r) /\ tokens_live # <<>>)
          => ( /\ Acquires(r, Head(tokens_live)[1])
               /\ tokens_live' = Tail(tokens_live)
               /\ tokens_dead' = tokens_dead )
      ]_vars

\* ---------------------------------------------------------------------
\* C4: held requests are never dropped: after the idle hook has run (and is
\* not in the middle of its wait), no request is left on hold without having
\* been resubmitted to the engine.
C4_IdleResubmitsHeld ==
    (outcome.op = "spider_idle" /\ state # "sleeping") => requests_on_hold = <<>>

\* ---------------------------------------------------------------------
\* C5: spider_opened given zero tokens (no list, or an empty list) fails
\* with a configuration error and creates no deque.
C5_ZeroTokensFatal ==
    (state # "constructed" /\ SuppliedN = 0) => state = "not_configured"

\* ---------------------------------------------------------------------
\* C6: with the classifier that always returns (False, False), every
\* process_response on a signed request appends the request's token to the
\* back of tokens_live with count 1 + the count it was acquired with (0: the
\* only count _obtain_token ever returns), and leaves tokens_dead alone.
C6_SuccessCounter ==
    [][ \A r \in Requests :
          (RunsProcessResponse(r) /\ check_response = "always_live")
          => ( /\ tokens_live' = Append(tokens_live, <<requests[r].meta["token"], 1>>)
               /\ tokens_dead' = tokens_dead
               /\ outcome'.result = "response" )
      ]_vars

\* ---------------------------------------------------------------------
\* C7: a spider_idle call that finds requests_on_hold empty does not wait,
\* resubmits nothing, does not raise DontCloseSpider and changes neither the
\* deques nor the hold list nor any request.
C7_IdleNoop ==
    [][ (requests_on_hold = <<>> /\ outcome'.op = "spider_idle" /\ outcome' # outcome)
        => ( /\ outcome'.result = None
             /\ outcome'.slept = 0
             /\ outcome'.crawled = <<>>
             /\ UNCHANGED <<state, tokens_live, tokens_dead, requests_on_hold,
                            requests, clock>> )
      ]_vars

\* The idle hook has just run as a no-op while the pool held tokens in both
\* deques.
C7_Witness ==
    /\ outcome.op = "spider_idle"
    /\ outcome.result = None
    /\ requests_on_hold = <<>>
    /\ tokens_live # <<>>
    /\ tokens_dead # <<>>

\* ---------------------------------------------------------------------
\* C8: no token occurs twice in tokens_live and tokens_dead taken together
\* (so none is in both deques), whatever the interleaving of the calls.
C8_NoDuplicateToken ==
    \A i, j \in 1..Len(PoolTokens) : i # j => PoolTokens[i] # PoolTokens[j]

\* Two requests were in flight together; one token came back live and the
\* other dead.
C8_Witness ==
    /\ outcome.op = "process_response"
    /\ Len(tokens_live) = 1
    /\ Len(tokens_dead) = 1
    /\ tokens_dead[1][2] # NegInf
    /\ SuppliedN = 2

\* ---------------------------------------------------------------------
\* C9: when the spider supplies no oauth_check_response_func, tokens_live is
\* empty in every state, and every process_response on a signed request
\* appends its token to tokens_dead with the current time and returns the
\* response, never the request.
C9_DefaultDiscards ==
    /\ [](oauth_check_response_func = <<>> => tokens_live = <<>>)
    /\ [][ \A r \in Requests :
             (RunsProcessResponse(r) /\ oauth_check_response_func = <<>>)
             => ( /\ tokens_dead' = Append(tokens_dead, <<requests[r].meta["token"], clock>>)
                  /\ outcome'.result = "response"
                  /\ requests'[r].status = "finished" )
         ]_vars

\* Under the default classifier a response has just retired its token.
C9_Witness ==
    /\ oauth_check_response_func = <<>>
    /\ check_response = "default_check_response"
    /\ outcome.op = "process_response"
    /\ outcome.result = "response"
    /\ tokens_dead # <<>>
    /\ tokens_dead[Len(tokens_dead)] = <<outcome.token, clock>>

\* ---------------------------------------------------------------------
\* C10: a process_request call that finds tokens_live empty and no dead
\* token's cooldown elapsed appends the request once to the back of
\* requests_on_hold, raises IgnoreRequest, leaves the request unsigned and
\* without a token, does not wait, and leaves both deques unchanged.
C10_UnavailableHolds ==
    [][ \A r \in Requests :
          ( /\ RunsProcessRequest(r)
            /\ tokens_live = <<>>
            /\ \A i \in 1..Len(tokens_dead) : clock < tokens_dead[i][2] + Window )
          => ( /\ requests_on_hold' = Append(requests_on_hold, r)
               /\ outcome'.result = "IgnoreRequest"
               /\ outcome'.token = None
               /\ requests'[r].meta = requests[r].meta
               /\ requests'[r].headers = requests[r].headers
               /\ "token" \notin DOMAIN requests'[r].meta
               /\ UNCHANGED <<tokens_live, tokens_dead, clock>> )
      ]_vars

\* A request has just been put on hold while a token was cooling down.
C10_Witness ==
    /\ outcome.op = "process_request"
    /\ outcome.result = "IgnoreRequest"
    /\ tokens_dead # <<>>
    /\ requests_on_hold # <<>>
    /\ requests_on_hold[Len(requests_on_hold)] = outcome.request

\* ---------------------------------------------------------------------
\* C11: every process_response on a signed request first puts the token in
\* a deque and then either returns the request, rescheduled with 'token' and
\* 'oauth' removed from its meta, or returns the response as the final
\* result; under a classifier that never asks for a retry it returns the
\* response.
C11_RetryIndependent ==
    [][ \A r \in Requests :
          RunsProcessResponse(r)
          => ( /\ Len(tokens_live') + Len(tokens_dead')
                    = Len(tokens_live) + Len(tokens_dead) + 1
               /\ outcome'.result \in {"request", "response"}
               /\ outcome'.result = "request" =>
                     /\ requests'[r].status = "scheduled"
                     /\ "token" \notin DOMAIN requests'[r].meta
                     /\ "oauth" \notin DOMAIN requests'[r].meta
               /\ outcome'.result = "response" => requests'[r].status = "finished"
               /\ check_response \in {"default_check_response", "always_live"} =>
                     outcome'.result = "response" )
      ]_vars

\* ---------------------------------------------------------------------
\* C12: a spider_idle call that finds requests on hold either starts its
\* wait, or resubmits every held request once, in the order held, empties
\* requests_on_hold and raises DontCloseSpider.
C12_ReleaseHeld ==
    [][ (requests_on_hold # <<>> /\ outcome'.op = "spider_idle" /\ outcome' # outcome)
        => \/ /\ outcome'.result = "sleeping"
              /\ requests_on_hold' = requests_on_hold
           \/ /\ outcome'.result = "DontCloseSpider"
              /\ outcome'.crawled = requests_on_hold
              /\ requests_on_hold' = <<>>
              /\ \A i \in 1..Len(requests_on_hold) :
                    requests'[requests_on_hold[i]].status = "scheduled"
      ]_vars

\* ---------------------------------------------------------------------
\* C13: when spider_opened completes with tokens [t1..tN], tokens_live is
\* empty and tokens_dead holds t1..tN in list order with death time -inf;
\* the initial entries still in tokens_dead are always the last ones of the
\* list, in list order, at the front of the deque; a process_request that
\* finds tokens_live empty and an initial entry at the front is given that
\* entry's token, whatever the window; and with a one-minute window and every
\* dead token retired at time 0, a process_request at clock 0 is put on hold
\* and one at clock 60 is given the front token.
C13_InitialTokensEligible ==
    /\ []( (state = "opened" /\ outcome.op = "spider_opened") =>
              /\ tokens_live = <<>>
              /\ Len(tokens_dead) = SuppliedN
              /\ \A i \in 1..SuppliedN :
                    tokens_dead[i] = <<oauth_token_list[1][i], NegInf>> )
    /\ []( state \in {"opened", "sleeping", "blocked"} =>
              \E k \in 0..Len(tokens_dead) :
                 /\ k <= SuppliedN
                 /\ \A i \in 1..k :
                       tokens_dead[i] = <<oauth_token_list[1][SuppliedN - k + i], NegInf>>
                 /\ \A i \in (k + 1)..Len(tokens_dead) : tokens_dead[i][2] # NegInf )
    /\ [][ \A r \in Requests :
             (RunsProcessRequest(r) /\ tokens_live = <<>> /\ tokens_dead # <<>>)
             => /\ Head(tokens_dead)[2] = NegInf => Acquires(r, Head(tokens_dead)[1])
                /\ ( /\ REQUEST_WINDOW_SIZE_MINS = 1
                     /\ \A i \in 1..Len(tokens_dead) : tokens_dead[i][2] = 0 )
                   => /\ clock = 0 => outcome'.result = "IgnoreRequest"
                      /\ clock = 60 => Acquires(r, Head(tokens_dead)[1])
         ]_vars

\* Window of one minute, tokens [A, B]: both were acquired and retired at
\* time 0, and at clock 60 a request has just been given A.
C13_Witness ==
    /\ REQUEST_WINDOW_SIZE_MINS = 1
    /\ SuppliedN = 2
    /\ outcome.op = "process_request"
    /\ outcome.token = "A"
    /\ clock = 60
    /\ tokens_dead = << <<"B", 0>> >>
    /\ tokens_live = <<>>

\* ---------------------------------------------------------------------
\* C14: every process_response on a signed request appends the request's
\* token to the back of exactly one deque (tokens_dead with the current
\* time, or tokens_live with a success count) and completes without error.
C14_ResponseReturnsToken ==
    [][ \A r \in Requests :
          RunsProcessResponse(r)
          => LET t == requests[r].meta["token"]
             IN  /\ outcome'.result \notin {"KeyError", "UnboundLocalError"}
                 /\ \/ /\ tokens_dead' = Append(tokens_dead, <<t, clock>>)
                       /\ tokens_live' = tokens_live
                    \/ /\ \E n \in 1..2 : tokens_live' = Append(tokens_live, <<t, n>>)
                       /\ tokens_dead' = tokens_dead
      ]_vars

\* ---------------------------------------------------------------------
\* C15: every spider_idle call terminates: it never enters a wait that is
\* not finite (no wait when tokens_dead is empty).
C15_IdleTerminates ==
    outcome.op = "spider_idle" =>
        /\ state # "blocked"
        /\ outcome.result # "SleepError"
        /\ outcome.slept < PosInf

\* ---------------------------------------------------------------------
\* C16: the death times in tokens_dead are non-decreasing from front to
\* back, and _dead_token_time_left, which reads the front entry only, equals
\* the least max(0, window - (now - death_time)) over all dead entries.
C16_DeadOrdered ==
    /\ \A i, j \in 1..Len(tokens_dead) : i < j => tokens_dead[i][2] <= tokens_dead[j][2]
    /\ tokens_dead # <<>> =>
          LET rem(i) == IF Window - (clock - tokens_dead[i][2]) > 0
                        THEN Window - (clock - tokens_dead[i][2]) ELSE 0
          IN  /\ \E i \in 1..Len(tokens_dead) :
                    DeadTokenTimeLeft(tokens_dead, clock, REQUEST_WINDOW_SIZE_MINS) = rem(i)
              /\ \A i \in 1..Len(tokens_dead) :
                    DeadTokenTimeLeft(tokens_dead, clock, REQUEST_WINDOW_SIZE_MINS) <= rem(i)

\* Two tokens were retired at different times; the earlier one is in front.
C16_Witness ==
    /\ Len(tokens_dead) = 2
    /\ tokens_dead[1][2] = 0
    /\ tokens_dead[2][2] = 60
    /\ outcome.op = "process_response"

\* ---------------------------------------------------------------------
\* C17: with a window of 0 minutes, a process_request that finds a token in
\* tokens_live or tokens_dead is given a token and does not put the request
\* on hold.
C17_ZeroWindowNeverHolds ==
    [][ \A r \in Requests :
          ( /\ RunsProcessRequest(r)
            /\ REQUEST_WINDOW_SIZE_MINS = 0
            /\ (tokens_live # <<>> \/ tokens_dead # <<>>) )
          => ( /\ requests'[r].status = "downloading"
               /\ outcome'.token # None
               /\ requests_on_hold' = requests_on_hold )
      ]_vars

\* ---------------------------------------------------------------------
\* C18: while spider_idle is inside its wait, the only step is the end of
\* that wait: no process_request or process_response is serviced, so at the
\* end of the wait tokens_live, tokens_dead and requests_on_hold are as they
\* were at its start, the clock has advanced by the duration of the wait,
\* and the held requests are then resubmitted. A wait that has begun can
\* always end, and it is a wait for a finite, positive time.
C18_WaitBlocks ==
    /\ [][ state = "sleeping"
           => ( /\ state' = "opened"
                /\ tokens_live' = tokens_live
                /\ tokens_dead' = tokens_dead
                /\ clock' = clock + outcome.slept
                /\ outcome'.result = "DontCloseSpider"
                /\ outcome'.crawled = requests_on_hold
                /\ requests_on_hold' = <<>> )
         ]_vars
    /\ []( state = "sleeping"
           => ( /\ ENABLED IdleWake
                /\ outcome.slept > 0
                /\ outcome.slept < PosInf
                /\ requests_on_hold # <<>> ) )

\* The idle hook has waited 60 seconds for the front dead token and has
\* then resubmitted the held requests.
C18_Witness ==
    /\ outcome.op = "spider_idle"
    /\ outcome.result = "DontCloseSpider"
    /\ outcome.slept = 60
    /\ clock = 60
    /\ outcome.crawled # <<>>
    /\ tokens_dead # <<>>

\* ---------------------------------------------------------------------
\* C19: the token bound to a signed in-flight request is in neither deque,
\* and no two in-flight requests are bound to the same token.
C19_ExclusiveOwnership ==
    /\ \A r \in InFlight :
          /\ "token" \in DOMAIN requests[r].meta
          /\ \A i \in 1..Len(PoolTokens) : PoolTokens[i] # requests[r].meta["token"]
    /\ \A r1, r2 \in InFlight :
          r1 # r2 => requests[r1].meta["token"] # requests[r2].meta["token"]

\* Two signed requests are in flight, each with its own token, and both
\* deques are empty.
C19_Witness ==
    /\ Cardinality(InFlight) = 2
    /\ outcome.op = "process_request"
    /\ outcome.token # None
    /\ tokens_live = <<>>
    /\ tokens_dead = <<>>

\* ---------------------------------------------------------------------
\* C20: every one of the N initial tokens is in tokens_live, in tokens_dead
\* or bound to a signed in-flight request: the three counts add up to N in
\* every state.
C20_NoTokenLost ==
    (state \in {"opened", "sleeping", "blocked"} /\ SuppliedN >= 1) =>
        Len(tokens_live) + Len(tokens_dead) + Cardinality(InFlight) = SuppliedN

====
